---- MODULE Spec2Model ----
(***************************************************************************)
(* Model of src/backend-service/main.py: the FastAPI handlers chat,        *)
(* vertex_ai_chat, health_check and list_models, the module-level          *)
(* httpx.AsyncClient they share, the two Prometheus request counters, the  *)
(* per-request BackgroundTasks list and the shutdown event.                *)
(*                                                                         *)
(* A handler that awaits the proxy is two steps (up to the await, and from *)
(* the reply to the return/raise); the event loop runs one handler at a    *)
(* time between awaits, so each step is atomic.  vertex_ai_chat has no     *)
(* await (generate_content is a blocking call), so it is one step.         *)
(* Optional values are <<>> (None) or <<v>>.  JSON values are tagged       *)
(* records.  ChatResponse.timestamp (wall clock) is left out.              *)
(***************************************************************************)
EXTENDS Integers, Sequences, FiniteSets, TLC

\* ------------------------------------------------------------------ bounds
MaxInFlight == 2
MaxCalls == 2
MaxTime == 1

Slots == 1..MaxInFlight

\* ------------------------------------------------------- optional values
None == <<>>
Some(v) == <<v>>

\* ------------------------------------------------------------ ChatRequest
Request(message, model, temperature, max_tokens, system_prompt, conversation_id) ==
  [message |-> message, model |-> model, temperature |-> temperature,
   max_tokens |-> max_tokens, system_prompt |-> system_prompt,
   conversation_id |-> conversation_id]

Models == {"gpt-x", "gemini-pro"}

\* Valid requests: the fields pass the pydantic constraints (temperature in
\* tenths); every Optional field occurs both set and unset, system_prompt
\* also as the empty string.
ChatRequest ==
  {Request("hi", "gpt-x", Some(7), Some(1000), Some("be terse"), None),
   Request("hi", "gemini-pro", Some(7), Some(1000), None, Some("c1")),
   Request("hello there", "gpt-x", None, None, Some(""), Some("c1"))}

\* ------------------------------------------------------------ JSON values
JNull == [t |-> "null"]
JStr(s) == [t |-> "str", v |-> s]
JNum(n) == [t |-> "num", v |-> n]
JObj(f) == [t |-> "obj", v |-> f]
JArr(s) == [t |-> "arr", v |-> s]

Ok(v) == [ok |-> TRUE, v |-> v]
Err(e) == [ok |-> FALSE, exc |-> e]
Bind(r, F(_)) == IF r.ok THEN F(r.v) ELSE r

\* Python subscripting d[k], l[0] and dict.get on a parsed JSON value.
GetItem(j, k) ==
  IF j.t = "obj"
    THEN IF k \in DOMAIN j.v THEN Ok(j.v[k]) ELSE Err("KeyError")
    ELSE Err("TypeError")

Index0(j) ==
  IF j.t = "arr"
    THEN IF Len(j.v) > 0 THEN Ok(j.v[1]) ELSE Err("IndexError")
    ELSE Err("TypeError")

DictGet(j, k, default) ==
  IF j.t = "obj"
    THEN IF k \in DOMAIN j.v THEN Ok(j.v[k]) ELSE Ok(default)
    ELSE Err("AttributeError")

\* ------------------------------------------------- upstream reply bodies
BodyBoom == "boom"
BodyEmptyObj == "{}"
BodyNullContent == "{\"choices\":[{\"message\":{\"content\":null}}]}"
BodyNoUsage == "{\"choices\":[{\"message\":{\"content\":\"hello\"}}]}"
BodyUsageNull == "{\"choices\":[{\"message\":{\"content\":\"hello\"}}],\"usage\":null}"
BodyUsageNoTotal == "{\"choices\":[{\"message\":{\"content\":\"hello\"}}],\"usage\":{}}"
BodyUsageTotal == "{\"choices\":[{\"message\":{\"content\":\"hello\"}}],\"usage\":{\"total_tokens\":42}}"

Bodies ==
  {BodyBoom, BodyEmptyObj, BodyNullContent, BodyNoUsage, BodyUsageNull,
   BodyUsageNoTotal, BodyUsageTotal}

Choices(content) == JArr(<<JObj([message |-> JObj([content |-> content])])>>)

\* response.json(): the parse of each body, or the JSONDecodeError.
json(text) ==
  CASE text = BodyEmptyObj -> Ok(JObj(<<>>))
    [] text = BodyNullContent -> Ok(JObj([choices |-> Choices(JNull)]))
    [] text = BodyNoUsage -> Ok(JObj([choices |-> Choices(JStr("hello"))]))
    [] text = BodyUsageNull ->
         Ok(JObj([choices |-> Choices(JStr("hello")), usage |-> JNull]))
    [] text = BodyUsageNoTotal ->
         Ok(JObj([choices |-> Choices(JStr("hello")), usage |-> JObj(<<>>)]))
    [] text = BodyUsageTotal ->
         Ok(JObj([choices |-> Choices(JStr("hello")),
                  usage |-> JObj([total_tokens |-> JNum(42)])]))
    [] OTHER -> Err("JSONDecodeError")

\* ------------------------------------------------------------- exceptions
Exc(type, msg) == [type |-> type, status_code |-> 0, detail |-> msg]
HTTPException(status_code, detail) ==
  [type |-> "HTTPException", status_code |-> status_code, detail |-> detail]

\* httpx class hierarchy: TimeoutException is a subclass of RequestError.
TimeoutExceptionTypes == {"ReadTimeout"}
RequestErrorTypes == TimeoutExceptionTypes \cup {"ConnectError"}

\* --------------------------------------------------- replies of the proxy
RaiseReply(type, msg) == [kind |-> "raise", exc |-> Exc(type, msg)]
HttpReply(status_code, text) ==
  [kind |-> "response", status_code |-> status_code, text |-> text]
NoReply == [kind |-> "none"]

PostReplies ==
  {RaiseReply("ReadTimeout", "timed out"),
   RaiseReply("ConnectError", "connection refused")}
  \cup {HttpReply(200, b) : b \in Bodies}
  \cup {HttpReply(s, BodyBoom) : s \in {404, 500}}

GetReplies ==
  {RaiseReply("ConnectError", "connection refused"),
   HttpReply(200, BodyEmptyObj), HttpReply(500, BodyBoom)}

\* ------------------------------------------------------ metric counters
Statuses == {"success", "error", "timeout"}
Labels == Models \X Statuses
ZeroCounter == [l \in Labels |-> 0]

Count(labels, s) == Cardinality({i \in DOMAIN labels : labels[i] = s})

\* Counter.labels(model=..., status=...).inc(), once per element of labels.
Inc(counter, model, labels) ==
  [l \in Labels |->
     IF l[1] = model THEN counter[l] + Count(labels, l[2]) ELSE counter[l]]

Total(counter) ==
  LET RECURSIVE Sum(_)
      Sum(S) == IF S = {} THEN 0
                ELSE LET l == CHOOSE x \in S : TRUE
                     IN counter[l] + Sum(S \ {l})
  IN Sum(Labels)

\* ------------------------------------------------------------------ chat
\* Python truthiness of an Optional[str]: None and "" are both falsy.
Truthy(opt) == opt # None /\ opt[1] # ""

\* Variant: the system message is appended after the user message.
litellm_request_Append(request) ==
  LET user == <<[role |-> "user", content |-> request.message]>>
      messages ==
        IF Truthy(request.system_prompt)
          THEN user \o
               <<[role |-> "system", content |-> request.system_prompt[1]]>>
          ELSE user
  IN [model |-> request.model, messages |-> messages,
      temperature |-> request.temperature,
      max_tokens |-> request.max_tokens]

litellm_request(request) ==
  LET user == <<[role |-> "user", content |-> request.message]>>
      messages ==
        IF Truthy(request.system_prompt)
          THEN <<[role |-> "system", content |-> request.system_prompt[1]]>>
               \o user
          ELSE user
  IN [model |-> request.model, messages |-> messages,
      temperature |-> request.temperature,
      max_tokens |-> request.max_tokens]

PostCall(request) ==
  [method |-> "POST", url |-> "/chat/completions",
   json |-> litellm_request(request), timeout |-> 60]

\* Variant: the two clock readings are subtracted the wrong way round.
ProcessingTime_Reversed(start, t) == start - t

ProcessingTime(start, t) == t - start

\* result["choices"][0]["message"]["content"]
ExtractResponse(result) ==
  Bind(Bind(Bind(GetItem(result, "choices"), Index0),
            LAMBDA c : GetItem(c, "message")),
       LAMBDA m : GetItem(m, "content"))

\* Variant: result["usage"]["total_tokens"], which needs the usage field.
ExtractTokens_Subscript(result) ==
  Bind(GetItem(result, "usage"), LAMBDA u : GetItem(u, "total_tokens"))

\* result.get("usage", {}).get("total_tokens")
ExtractTokens(result) ==
  Bind(DictGet(result, "usage", JObj(<<>>)),
       LAMBDA u : DictGet(u, "total_tokens", JNull))

ChatResponse(response, model, tokens_used, conversation_id, processing_time) ==
  [type |-> "ChatResponse", response |-> response, model |-> model,
   tokens_used |-> tokens_used, conversation_id |-> conversation_id,
   processing_time |-> processing_time]

\* pydantic validation of ChatResponse: response is a str, tokens_used an
\* Optional[int].
ValidChatResponse(ai_response, tokens_used) ==
  ai_response.t = "str" /\ tokens_used.t \in {"null", "num"}

NoResponse == [type |-> "none"]
Raised(exc, labels, tasks) ==
  [raised |-> TRUE, exc |-> exc, labels |-> labels, tasks |-> tasks,
   ret |-> NoResponse]
Returned(ret, labels, tasks) ==
  [raised |-> FALSE, exc |-> Exc("none", ""), labels |-> labels,
   tasks |-> tasks, ret |-> ret]

LogTask(model, user_message, ai_response, processing_time, tokens_used) ==
  [func |-> "log_chat_request", model |-> model,
   user_message |-> user_message, ai_response |-> ai_response,
   processing_time |-> processing_time, tokens_used |-> tokens_used]

\* The try block of chat from the reply of client.post to the return:
\* which metric labels it increments, which background tasks it adds, and
\* what it returns or raises.
ChatTry(request, reply, start, t) ==
  IF reply.kind = "raise" THEN Raised(reply.exc, <<>>, <<>>)
  ELSE IF reply.status_code # 200
    THEN Raised(HTTPException(reply.status_code,
                              "LiteLLM error: " \o reply.text),
                <<"error">>, <<>>)
  ELSE LET parsed == json(reply.text) IN
    IF ~parsed.ok THEN Raised(Exc(parsed.exc, "json"), <<>>, <<>>)
    ELSE LET result == parsed.v
             processing_time == ProcessingTime(start, t)
             ai_response == ExtractResponse(result)
             tokens_used == ExtractTokens(result)
         IN IF ~ai_response.ok
              THEN Raised(Exc(ai_response.exc, "choices"), <<"success">>, <<>>)
            ELSE IF ~tokens_used.ok
              THEN Raised(Exc(tokens_used.exc, "usage"), <<"success">>, <<>>)
            ELSE LET task == LogTask(request.model, request.message,
                                     ai_response.v, processing_time,
                                     tokens_used.v)
                 IN IF ~ValidChatResponse(ai_response.v, tokens_used.v)
                      THEN Raised(Exc("ValidationError", "ChatResponse"),
                                  <<"success">>, <<task>>)
                      ELSE Returned(
                             ChatResponse(
                               ai_response.v.v, request.model,
                               IF tokens_used.v.t = "null" THEN None
                               ELSE Some(tokens_used.v.v),
                               request.conversation_id, processing_time),
                             <<"success">>, <<task>>)

\* Variant: `except httpx.RequestError` placed before
\* `except httpx.TimeoutException`, so that it also takes the timeouts.
ChatExcept_RequestErrorFirst(exc) ==
  IF exc.type \in RequestErrorTypes
    THEN [labels |-> <<"error">>,
          exc |-> HTTPException(502, "Connection error: " \o exc.detail)]
  ELSE IF exc.type \in TimeoutExceptionTypes
    THEN [labels |-> <<"timeout">>,
          exc |-> HTTPException(504, "Request timeout")]
  ELSE [labels |-> <<"error">>,
        exc |-> HTTPException(500, "Internal server error")]

\* Variant: no final `except Exception`, other exceptions leave as they are.
ChatExcept_NoCatchAll(exc) ==
  IF exc.type \in TimeoutExceptionTypes
    THEN [labels |-> <<"timeout">>,
          exc |-> HTTPException(504, "Request timeout")]
  ELSE IF exc.type \in RequestErrorTypes
    THEN [labels |-> <<"error">>,
          exc |-> HTTPException(502, "Connection error: " \o exc.detail)]
  ELSE [labels |-> <<>>, exc |-> exc]

\* The except clauses of chat, in source order.
ChatExcept(exc) ==
  IF exc.type \in TimeoutExceptionTypes
    THEN [labels |-> <<"timeout">>,
          exc |-> HTTPException(504, "Request timeout")]
  ELSE IF exc.type \in RequestErrorTypes
    THEN [labels |-> <<"error">>,
          exc |-> HTTPException(502, "Connection error: " \o exc.detail)]
  ELSE [labels |-> <<"error">>,
        exc |-> HTTPException(500, "Internal server error")]

\* What one run of a handler did: labels incremented, tasks added, outcome.
Finish(tr, handled) ==
  IF tr.raised
    THEN [labels |-> tr.labels \o handled.labels, tasks |-> tr.tasks,
          outcome |-> handled.exc]
    ELSE [labels |-> tr.labels, tasks |-> tr.tasks, outcome |-> tr.ret]

ChatHandler(tr) == Finish(tr, ChatExcept(tr.exc))

\* __aenter__ of an httpx client that is not UNOPENED raises RuntimeError.
ClientOpenError(state) ==
  Exc("RuntimeError",
      IF state = "OPENED" THEN "Cannot open a client instance more than once."
      ELSE "Cannot reopen a client instance, once it has been closed.")

\* -------------------------------------------------------- vertex_ai_chat
SdkResults ==
  {[kind |-> "text", text |-> "hello"],
   [kind |-> "raise", exc |-> Exc("DeadlineExceeded", "deadline exceeded")],
   [kind |-> "raise", exc |-> Exc("ServiceUnavailable", "failed to connect")],
   [kind |-> "raise", exc |-> Exc("ValueError", "response blocked")]}

SdkCall(request) ==
  [method |-> "generate_content", model |-> request.model,
   prompt |-> request.message,
   generation_config |-> [temperature |-> request.temperature,
                          max_output_tokens |-> request.max_tokens]]

VertexTry(request, sdk, start, t) ==
  IF sdk.kind = "raise" THEN Raised(sdk.exc, <<>>, <<>>)
  ELSE Returned(ChatResponse(sdk.text, request.model, None,
                             request.conversation_id,
                             ProcessingTime(start, t)),
                <<"success">>, <<>>)

VertexExcept(exc) ==
  [labels |-> <<"error">>,
   exc |-> HTTPException(500, "Vertex AI error: " \o exc.detail)]

VertexHandler(tr) == Finish(tr, VertexExcept(tr.exc))

\* Variant: the availability guard is missing.
VertexUnavailable_Never(available) == FALSE

VertexUnavailable(available) == ~available

\* ------------------------------------------- health_check and list_models
HealthResponse(litellm, available) ==
  [type |-> "HealthResponse", status |-> "healthy",
   services |-> [litellm |-> litellm,
                 vertex_ai |-> IF available THEN "healthy" ELSE "unhealthy"]]

HealthLitellm(reply) ==
  IF reply.kind = "response" /\ reply.status_code = 200
    THEN "healthy" ELSE "unhealthy"

ModelsOutcome(reply) ==
  IF reply.kind = "response" /\ reply.status_code = 200 /\ json(reply.text).ok
    THEN [type |-> "json", body |-> reply.text]
    ELSE HTTPException(500, "Internal server error")

\* ------------------------------------------------------------------ state
VARIABLES
  http_client,          \* state of the shared httpx.AsyncClient
  vertex_ai_available,  \* result of the aiplatform.init at import time
  LITELLM_REQUESTS,     \* Counter, by (model, status)
  VERTEX_AI_REQUESTS,   \* Counter, by (model, status)
  now,                  \* asyncio event loop time (monotonic)
  pc,                   \* per request slot: position of its handler
  call,                 \* per slot: handler, request, upstream reply
  start_time,           \* per slot: start_time of the running chat handler
  incs,                 \* per slot: status labels this call has incremented
  sent,                 \* per slot: outbound calls this call has issued
  background_tasks,     \* per slot: the request's BackgroundTasks list
  outcome,              \* per slot: what the handler returned or raised
  audit_log,            \* number of log_chat_request records written
  calls,                \* handler invocations so far
  shutdown              \* the shutdown event has run

vars ==
  <<http_client, vertex_ai_available, LITELLM_REQUESTS, VERTEX_AI_REQUESTS,
    now, pc, call, start_time, incs, sent, background_tasks, outcome,
    audit_log, calls, shutdown>>

NoRequest == [model |-> "none"]
NoCall == [handler |-> "none", request |-> NoRequest, reply |-> NoReply]
Call(handler, request, reply) ==
  [handler |-> handler, request |-> request, reply |-> reply]

Init ==
  /\ http_client = "UNOPENED"
  /\ vertex_ai_available \in BOOLEAN
  /\ LITELLM_REQUESTS = ZeroCounter
  /\ VERTEX_AI_REQUESTS = ZeroCounter
  /\ now = 0
  /\ pc = [r \in Slots |-> "idle"]
  /\ call = [r \in Slots |-> NoCall]
  /\ start_time = [r \in Slots |-> 0]
  /\ incs = [r \in Slots |-> <<>>]
  /\ sent = [r \in Slots |-> <<>>]
  /\ background_tasks = [r \in Slots |-> <<>>]
  /\ outcome = [r \in Slots |-> NoResponse]
  /\ audit_log = 0
  /\ calls = 0
  /\ shutdown = FALSE

\* A new request takes the first free slot (slots only name requests).
CanStart(r) ==
  /\ pc[r] = "idle"
  /\ \A q \in Slots : q < r => pc[q] # "idle"
  /\ ~shutdown
  /\ calls < MaxCalls

\* The handler of slot r ends with what fin says it did.
Done(r, fin) ==
  /\ pc' = [pc EXCEPT ![r] = "done"]
  /\ incs' = [incs EXCEPT ![r] = fin.labels]
  /\ background_tasks' = [background_tasks EXCEPT ![r] = fin.tasks]
  /\ outcome' = [outcome EXCEPT ![r] = fin.outcome]

\* ------------------------------------------------------------------ chat
\* chat up to `await client.post`: entering `async with http_client` either
\* raises (the client is open or closed already) or opens the client.
ChatStart(r, request) ==
  /\ CanStart(r)
  /\ calls' = calls + 1
  /\ call' = [call EXCEPT ![r] = Call("chat", request, NoReply)]
  /\ IF http_client # "UNOPENED"
       THEN LET fin == ChatHandler(Raised(ClientOpenError(http_client),
                                          <<>>, <<>>))
            IN /\ Done(r, fin)
               /\ LITELLM_REQUESTS' =
                    Inc(LITELLM_REQUESTS, request.model, fin.labels)
               /\ UNCHANGED <<http_client, sent, start_time>>
       ELSE /\ http_client' = "OPENED"
            /\ start_time' = [start_time EXCEPT ![r] = now]
            /\ sent' = [sent EXCEPT ![r] = <<PostCall(request)>>]
            /\ pc' = [pc EXCEPT ![r] = "await_post"]
            /\ UNCHANGED <<LITELLM_REQUESTS, incs, background_tasks, outcome>>
  /\ UNCHANGED <<vertex_ai_available, VERTEX_AI_REQUESTS, now, audit_log,
                 shutdown>>

\* chat from the reply of client.post on; leaving the `async with` block,
\* normally or by an exception, closes the client.
ChatResume(r, reply) ==
  /\ pc[r] = "await_post"
  /\ LET request == call[r].request
         fin == ChatHandler(ChatTry(request, reply, start_time[r], now))
     IN /\ Done(r, fin)
        /\ LITELLM_REQUESTS' = Inc(LITELLM_REQUESTS, request.model, fin.labels)
  /\ call' = [call EXCEPT ![r].reply = reply]
  /\ start_time' = [start_time EXCEPT ![r] = 0]
  /\ http_client' = "CLOSED"
  /\ UNCHANGED <<vertex_ai_available, VERTEX_AI_REQUESTS, now, sent,
                 audit_log, calls, shutdown>>

\* -------------------------------------------------------- vertex_ai_chat
\* generate_content blocks the event loop for d ticks.
VertexChat(r, request, sdk, d) ==
  /\ CanStart(r)
  /\ now + d <= MaxTime
  /\ calls' = calls + 1
  /\ IF VertexUnavailable(vertex_ai_available)
       THEN /\ Done(r, [labels |-> <<>>, tasks |-> <<>>,
                        outcome |-> HTTPException(503,
                                                  "Vertex AI not available")])
            /\ call' = [call EXCEPT ![r] = Call("vertex", request, NoReply)]
            /\ UNCHANGED <<VERTEX_AI_REQUESTS, sent, now>>
       ELSE LET fin == VertexHandler(VertexTry(request, sdk, now, now + d))
            IN /\ Done(r, fin)
               /\ call' = [call EXCEPT ![r] = Call("vertex", request, sdk)]
               /\ VERTEX_AI_REQUESTS' =
                    Inc(VERTEX_AI_REQUESTS, request.model, fin.labels)
               /\ sent' = [sent EXCEPT ![r] = <<SdkCall(request)>>]
               /\ now' = now + d
  /\ UNCHANGED <<http_client, vertex_ai_available, LITELLM_REQUESTS,
                 start_time, audit_log, shutdown>>

\* ---------------------------------------------------------- health_check
HealthStart(r) ==
  /\ CanStart(r)
  /\ calls' = calls + 1
  /\ call' = [call EXCEPT ![r] = Call("health", NoRequest, NoReply)]
  /\ IF http_client # "UNOPENED"
       THEN /\ Done(r, [labels |-> <<>>, tasks |-> <<>>,
                        outcome |-> HealthResponse("unhealthy",
                                                   vertex_ai_available)])
            /\ UNCHANGED <<http_client, sent>>
       ELSE /\ http_client' = "OPENED"
            /\ sent' = [sent EXCEPT ![r] =
                          <<[method |-> "GET", url |-> "/health",
                             timeout |-> 5]>>]
            /\ pc' = [pc EXCEPT ![r] = "await_health"]
            /\ UNCHANGED <<incs, background_tasks, outcome>>
  /\ UNCHANGED <<vertex_ai_available, LITELLM_REQUESTS, VERTEX_AI_REQUESTS,
                 now, start_time, audit_log, shutdown>>

HealthResume(r, reply) ==
  /\ pc[r] = "await_health"
  /\ Done(r, [labels |-> <<>>, tasks |-> <<>>,
              outcome |-> HealthResponse(HealthLitellm(reply),
                                         vertex_ai_available)])
  /\ call' = [call EXCEPT ![r].reply = reply]
  /\ http_client' = "CLOSED"
  /\ UNCHANGED <<vertex_ai_available, LITELLM_REQUESTS, VERTEX_AI_REQUESTS,
                 now, start_time, sent, audit_log, calls, shutdown>>

\* ----------------------------------------------------------- list_models
ModelsStart(r) ==
  /\ CanStart(r)
  /\ calls' = calls + 1
  /\ call' = [call EXCEPT ![r] = Call("models", NoRequest, NoReply)]
  /\ IF http_client # "UNOPENED"
       THEN /\ Done(r, [labels |-> <<>>, tasks |-> <<>>,
                        outcome |-> ModelsOutcome(NoReply)])
            /\ UNCHANGED <<http_client, sent>>
       ELSE /\ http_client' = "OPENED"
            /\ sent' = [sent EXCEPT ![r] =
                          <<[method |-> "GET", url |-> "/models",
                             timeout |-> 30]>>]
            /\ pc' = [pc EXCEPT ![r] = "await_models"]
            /\ UNCHANGED <<incs, background_tasks, outcome>>
  /\ UNCHANGED <<vertex_ai_available, LITELLM_REQUESTS, VERTEX_AI_REQUESTS,
                 now, start_time, audit_log, shutdown>>

ModelsResume(r, reply) ==
  /\ pc[r] = "await_models"
  /\ Done(r, [labels |-> <<>>, tasks |-> <<>>,
              outcome |-> ModelsOutcome(reply)])
  /\ call' = [call EXCEPT ![r].reply = reply]
  /\ http_client' = "CLOSED"
  /\ UNCHANGED <<vertex_ai_available, LITELLM_REQUESTS, VERTEX_AI_REQUESTS,
                 now, start_time, sent, audit_log, calls, shutdown>>

\* ------------------------------------------------- response and shutdown
\* The framework sends the response.  The request's background tasks run
\* after a returned response; after a raised HTTPException the response is
\* built by http_exception_handler and the tasks are dropped.
Respond(r) ==
  /\ pc[r] = "done"
  /\ audit_log' =
       IF outcome[r].type = "HTTPException" THEN audit_log
       ELSE audit_log + Len(background_tasks[r])
  /\ pc' = [pc EXCEPT ![r] = "idle"]
  /\ call' = [call EXCEPT ![r] = NoCall]
  /\ incs' = [incs EXCEPT ![r] = <<>>]
  /\ sent' = [sent EXCEPT ![r] = <<>>]
  /\ background_tasks' = [background_tasks EXCEPT ![r] = <<>>]
  /\ outcome' = [outcome EXCEPT ![r] = NoResponse]
  /\ UNCHANGED <<http_client, vertex_ai_available, LITELLM_REQUESTS,
                 VERTEX_AI_REQUESTS, now, start_time, calls, shutdown>>

\* shutdown_event: runs once no request is in flight; closes the client.
Shutdown ==
  /\ ~shutdown
  /\ \A r \in Slots : pc[r] = "idle"
  /\ shutdown' = TRUE
  /\ http_client' = "CLOSED"
  /\ UNCHANGED <<vertex_ai_available, LITELLM_REQUESTS, VERTEX_AI_REQUESTS,
                 now, pc, call, start_time, incs, sent, background_tasks,
                 outcome, audit_log, calls>>

\* Time passes on the event loop clock.
Tick ==
  /\ now < MaxTime
  /\ now' = now + 1
  /\ UNCHANGED <<http_client, vertex_ai_available, LITELLM_REQUESTS,
                 VERTEX_AI_REQUESTS, pc, call, start_time, incs, sent,
                 background_tasks, outcome, audit_log, calls, shutdown>>

Next ==
  \/ \E r \in Slots, request \in ChatRequest : ChatStart(r, request)
  \/ \E r \in Slots, reply \in PostReplies : ChatResume(r, reply)
  \/ \E r \in Slots, request \in ChatRequest, sdk \in SdkResults,
        d \in 0..MaxTime : VertexChat(r, request, sdk, d)
  \/ \E r \in Slots : HealthStart(r)
  \/ \E r \in Slots, reply \in GetReplies : HealthResume(r, reply)
  \/ \E r \in Slots : ModelsStart(r)
  \/ \E r \in Slots, reply \in GetReplies : ModelsResume(r, reply)
  \/ \E r \in Slots : Respond(r)
  \/ Shutdown
  \/ Tick

Spec == Init /\ [][Next]_vars

TypeOK ==
  /\ http_client \in {"UNOPENED", "OPENED", "CLOSED"}
  /\ now \in 0..MaxTime
  /\ calls \in 0..MaxCalls

\* ================================================================ claims
IsDone(r, handler) == pc[r] = "done" /\ call[r].handler = handler
IsChatCall(r) == pc[r] = "done" /\ call[r].handler \in {"chat", "vertex"}
Succeeded(r) == outcome[r].type = "ChatResponse"
Failed(r, status_code) ==
  outcome[r].type = "HTTPException" /\ outcome[r].status_code = status_code
TimedOut(reply) ==
  reply.kind = "raise" /\ reply.exc.type \in TimeoutExceptionTypes
ConnectFailed(reply) ==
  reply.kind = "raise" /\ reply.exc.type \in RequestErrorTypes
                       /\ reply.exc.type \notin TimeoutExceptionTypes
Non200(reply) == reply.kind = "response" /\ reply.status_code # 200
WellFormed200 ==
  {HttpReply(200, b) : b \in {BodyNoUsage, BodyUsageNoTotal, BodyUsageTotal}}

\* C1: every finished call of chat or vertex_ai_chat, whatever its outcome,
\* has incremented its backend's request counter exactly once in total over
\* all status labels.
C1_CounterOncePerCall ==
  \A r \in Slots : IsChatCall(r) => Len(incs[r]) = 1

\* C2: when the proxy answers a chat call with a non-200 status s and body
\* b, the failure chat raises carries status s and body b (the body is not
\* replaced by a generic message, the failure is not turned into a 500
\* internal error).
C2_UpstreamErrorVerbatim ==
  \A r \in Slots :
    IsDone(r, "chat") /\ Non200(call[r].reply) =>
      /\ Failed(r, call[r].reply.status_code)
      /\ outcome[r].detail \in
           {call[r].reply.text, "LiteLLM error: " \o call[r].reply.text}

\* C3: until the shutdown event no step leaves the shared client closed; a
\* chat call that arrives while no other request is in flight (every
\* earlier request has completed) issues its POST, and a chat call whose
\* POST is answered 200 with a well-formed body returns a success response.
C3_ClientLongLived ==
  [][/\ ~shutdown' => http_client' # "CLOSED"
     /\ \A r \in Slots :
          /\ (/\ ~shutdown
              /\ \A q \in Slots : pc[q] = "idle"
              /\ call'[r].handler = "chat")
             => Len(sent'[r]) = 1
          /\ (/\ pc'[r] = "done"
              /\ call'[r].handler = "chat"
              /\ call'[r].reply \in WellFormed200)
             => outcome'[r].type = "ChatResponse"]_vars

\* C4: a chat call whose POST timed out fails with 504 (not 502, not 500),
\* has incremented the proxy counter once, with the timeout label, and has
\* added no audit log task.
C4_Timeout ==
  \A r \in Slots :
    IsDone(r, "chat") /\ TimedOut(call[r].reply) =>
      /\ Failed(r, 504)
      /\ incs[r] = <<"timeout">>
      /\ background_tasks[r] = <<>>

C4_Witness ==
  \E r \in Slots :
    /\ IsDone(r, "chat") /\ TimedOut(call[r].reply)
    /\ LITELLM_REQUESTS[<<call[r].request.model, "timeout">>] = 1

SdkTimedOut(sdk) == sdk.kind = "raise" /\ sdk.exc.type = "DeadlineExceeded"
SdkConnectFailed(sdk) ==
  sdk.kind = "raise" /\ sdk.exc.type = "ServiceUnavailable"

UserMessage(request) == [role |-> "user", content |-> request.message]
SystemMessage(request) ==
  [role |-> "system", content |-> request.system_prompt[1]]
PassedThrough(payload, request) ==
  /\ payload.model = request.model
  /\ payload.temperature = request.temperature
  /\ payload.max_tokens = request.max_tokens

UsageTotal(reply) == IF reply.text = BodyUsageTotal THEN Some(42) ELSE None

\* C8: every success response echoes the request's conversation_id and
\* model; from chat its tokens_used is the usage total of the upstream
\* reply, absent when the reply has none, and a 200 reply without a usage
\* field still succeeds; from vertex_ai_chat tokens_used is always absent.
C8_Echo ==
  \A r \in Slots :
    IsChatCall(r) =>
      /\ Succeeded(r) =>
           /\ outcome[r].conversation_id = call[r].request.conversation_id
           /\ outcome[r].model = call[r].request.model
           /\ outcome[r].tokens_used =
                IF call[r].handler = "chat" THEN UsageTotal(call[r].reply)
                ELSE None
      /\ call[r].handler = "chat" /\ call[r].reply = HttpReply(200, BodyNoUsage)
           => Succeeded(r) /\ outcome[r].tokens_used = None

C8_Witness ==
  \E r \in Slots :
    /\ IsDone(r, "chat") /\ call[r].reply = HttpReply(200, BodyNoUsage)
    /\ Succeeded(r) /\ outcome[r].conversation_id = Some("c1")

\* C9: every call of chat or vertex_ai_chat that returns a success response
\* has added exactly one audit log task, and every call that fails has
\* added none.
C9_AuditOnSuccessOnly ==
  \A r \in Slots :
    IsChatCall(r) =>
      Len(background_tasks[r]) = IF Succeeded(r) THEN 1 ELSE 0

SameOutcome(a, b) ==
  /\ a.type = b.type
  /\ a.type = "ChatResponse" =>
       /\ a.response = b.response /\ a.model = b.model
       /\ a.tokens_used = b.tokens_used
       /\ a.conversation_id = b.conversation_id
  /\ a.type # "ChatResponse" => a = b

\* C10: whatever other requests are in flight or have finished, a request
\* reaches its own network call and its outcome is the one its own input
\* and its own upstream reply give.
C10_Independent ==
  \A r \in Slots :
    pc[r] = "done" /\ call[r].handler \in {"chat", "health", "models"} =>
      /\ Len(sent[r]) = 1
      /\ call[r].handler = "chat" =>
           SameOutcome(outcome[r],
                       ChatHandler(ChatTry(call[r].request, call[r].reply,
                                           0, 0)).outcome)
      /\ call[r].handler = "health" =>
           outcome[r].services.litellm = HealthLitellm(call[r].reply)
      /\ call[r].handler = "models" =>
           outcome[r] = ModelsOutcome(call[r].reply)

\* C11 (as amended): chat reads its start_time on entry and vertex_ai_chat
\* after its availability guard, each before the backend is invoked; a call
\* that ends in a success response carries processing_time equal to the
\* loop time elapsed from that start to the backend's reply, which is >= 0;
\* a call that ends in a failure raises an HTTPException that carries a
\* status and a detail only, no elapsed time.
C11_ElapsedOnSuccess ==
  [][\A r \in Slots :
       (/\ pc[r] # "done" /\ pc'[r] = "done"
        /\ call'[r].handler \in {"chat", "vertex"})
       => IF outcome'[r].type = "ChatResponse"
            THEN /\ outcome'[r].processing_time =
                      now' - (IF call'[r].handler = "chat"
                                THEN start_time[r] ELSE now)
                 /\ outcome'[r].processing_time >= 0
            ELSE "processing_time" \notin DOMAIN outcome'[r]]_vars

C11_Witness ==
  \E r, q \in Slots :
    /\ IsDone(r, "chat") /\ Succeeded(r) /\ outcome[r].processing_time = 1
    /\ IsChatCall(q) /\ outcome[q].type = "HTTPException"
    /\ "processing_time" \notin DOMAIN outcome[q]

\* C11 (as stated): every outcome of chat or vertex_ai_chat, a success or a
\* failure, carries the elapsed time, and that value is >= 0.
C11_ElapsedOnEveryOutcome ==
  \A r \in Slots :
    IsChatCall(r) =>
      /\ "processing_time" \in DOMAIN outcome[r]
      /\ outcome[r].processing_time >= 0

====
